---- MODULE Spec2Model ----
(***************************************************************************)
(* Voice-driven coding assistant: the RTM transcription listener of        *)
(* AgoraConversationalClient (lib/agora-client.ts), the page's             *)
(* transcription callback with parseAgentResponse, and session teardown    *)
(* (handleDisconnect / disconnect).                                        *)
(*                                                                         *)
(* Text is a sequence of tokens.  A token is one character class or one    *)
(* marker the code searches for as a whole: the brackets, the two HTML     *)
(* markers of the validation, a markdown fence, a word character, a blank. *)
(***************************************************************************)
EXTENDS Integers, Sequences, FiniteSets, TLC

VARIABLES
    transcript,        \* page state: transcript entries, oldest first
    codeBlocks,        \* page state: committed code blocks, oldest first
    currentCode,       \* page state: html shown in the preview
    isGeneratingCode,  \* page state: "Generating code..." spinner
    isConnected,       \* page state: connection flag of the page
    isMicActive,       \* page state: microphone flag of the page
    agoraClientRef,    \* page ref to the AgoraConversationalClient
    client,            \* AgoraConversationalClient.client (RTC)
    rtcJoined,         \* the RTC SDK object has joined the channel
    rtmClient,         \* AgoraConversationalClient.rtmClient
    rtmLoggedIn,       \* the RTM SDK object is logged in
    rtmSubscribed,     \* the RTM SDK object is subscribed to the channel
    rtmListener,       \* the "message" listener is registered on the RTM object
    localAudioTrack,   \* AgoraConversationalClient.localAudioTrack
    trackEnabled,      \* the enabled flag of that track, FALSE when there is none
    onTranscription,   \* AgoraConversationalClient.onTranscription is set
    pc,                \* position of handleConnect / handleDisconnect
    agentLane,         \* history: the turn state of the agent lane, from the fragments delivered
    cleared,           \* history: handleDisconnect has cleared the page state
    lateCallback,      \* history: the callback ran after the page state was cleared
    probe,             \* FragmentSpec: the one event to deliver, and what the listener made of it
    openTracks,        \* MicSpec: microphone tracks created and not closed
    trackPublished     \* MicSpec: publish of the track in localAudioTrack has resolved

vars == <<transcript, codeBlocks, currentCode, isGeneratingCode, isConnected,
          isMicActive, agoraClientRef, client, rtcJoined, rtmClient, rtmLoggedIn,
          rtmSubscribed, rtmListener, localAudioTrack, trackEnabled,
          onTranscription, pc, agentLane, cleared, lateCallback, probe,
          openTracks, trackPublished>>

micVars == <<openTracks, trackPublished>>

pageVars == <<transcript, codeBlocks, currentCode, isGeneratingCode>>

clientVars == <<client, rtcJoined, rtmClient, rtmLoggedIn, rtmSubscribed,
                rtmListener, localAudioTrack, trackEnabled, onTranscription>>

-----------------------------------------------------------------------------
(* Bounds of the model *)

MaxTranscript == 1

MaxVersions == 2

MaxLen == 4

MaxTracks == 2

-----------------------------------------------------------------------------
(* Tokens *)

LB == "LB"            \* the open marker, U+3010
RB == "RB"            \* the close marker, U+3011
HTML == "<html"
DOCTYPE == "<!DOCTYPE"
doctype == "<!doctype"
FENCE == "FENCE"      \* a markdown fence, three backticks
W == "w"              \* a word character, [A-Za-z0-9_]
SP == " "
NL == "\n"

-----------------------------------------------------------------------------
(* String helpers, as the JavaScript built-ins the code calls *)

includes(s, tok) == \E i \in 1..Len(s) : s[i] = tok

IsSpace(tok) == tok \in {SP, NL}

RECURSIVE trimStart(_)
trimStart(s) ==
    IF s # <<>> /\ IsSpace(Head(s)) THEN trimStart(Tail(s)) ELSE s

RECURSIVE trimEnd(_)
trimEnd(s) ==
    IF s # <<>> /\ IsSpace(s[Len(s)]) THEN trimEnd(SubSeq(s, 1, Len(s) - 1)) ELSE s

trim(s) == trimEnd(trimStart(s))

\* index of the first occurrence of tok in s at or after position from, 0 if none
RECURSIVE indexOfFrom(_, _, _)
indexOfFrom(s, tok, from) ==
    IF from > Len(s) THEN 0
    ELSE IF s[from] = tok THEN from
    ELSE indexOfFrom(s, tok, from + 1)

\* s.replace(sub, ""): the first occurrence of the string sub removed
RECURSIVE removeFirstFrom(_, _, _)
removeFirstFrom(s, sub, i) ==
    IF i + Len(sub) - 1 > Len(s) THEN s
    ELSE IF SubSeq(s, i, i + Len(sub) - 1) = sub
         THEN SubSeq(s, 1, i - 1) \o SubSeq(s, i + Len(sub), Len(s))
         ELSE removeFirstFrom(s, sub, i + 1)

removeFirst(s, sub) == removeFirstFrom(s, sub, 1)

-----------------------------------------------------------------------------
(* parseAgentResponse *)

\* text.matchAll(/LB[\s\S]*?RB/g): the matches as <<first, last>> index pairs
RECURSIVE matchAllFrom(_, _)
matchAllFrom(text, from) ==
    LET s == indexOfFrom(text, LB, from)
        e == IF s = 0 THEN 0 ELSE indexOfFrom(text, RB, s + 1)
    IN  IF s = 0 \/ e = 0 THEN <<>>
        ELSE <<(<<s, e>>)>> \o matchAllFrom(text, e + 1)

matchAll(text) == matchAllFrom(text, 1)

\* content.replace(/^FENCE[\w]*\n?/g, "")
RECURSIVE dropWord(_)
dropWord(s) == IF s # <<>> /\ Head(s) = W THEN dropWord(Tail(s)) ELSE s

stripLeadingFence(s) ==
    IF s # <<>> /\ Head(s) = FENCE
    THEN LET r == dropWord(Tail(s))
         IN  IF r # <<>> /\ Head(r) = NL THEN Tail(r) ELSE r
    ELSE s

\* content.replace(/FENCE$/g, "")
stripTrailingFence(s) ==
    IF s # <<>> /\ s[Len(s)] = FENCE THEN SubSeq(s, 1, Len(s) - 1) ELSE s

\* match[0].slice(1, -1), the fences removed, trimmed
cleanContent(m) ==
    trim(stripTrailingFence(stripLeadingFence(SubSeq(m, 2, Len(m) - 1))))

\* content.includes("<html") || content.includes("<!DOCTYPE")
isHtml(content) == includes(content, HTML) \/ includes(content, DOCTYPE)

\* the loop over the matches: <<spokenText, codes>> after matches k..Len(ms)
RECURSIVE parseLoop(_, _, _, _, _)
parseLoop(text, ms, k, spokenText, codes) ==
    IF k > Len(ms) THEN [spokenText |-> trim(spokenText), codes |-> codes]
    ELSE LET m == SubSeq(text, ms[k][1], ms[k][2])
             content == cleanContent(m)
         IN  IF isHtml(content)
             THEN parseLoop(text, ms, k + 1, removeFirst(spokenText, m),
                            Append(codes, content))
             ELSE parseLoop(text, ms, k + 1, spokenText, codes)

\* a parser that takes an open region running to the end of the text as code
parseAgentResponse_TakesOpenRegion(text) ==
    LET open == indexOfFrom(text, LB, 1)
        rest == trim(SubSeq(text, open + 1, Len(text)))
    IN  IF open > 0 /\ matchAll(text) = <<>> /\ isHtml(rest)
        THEN [spokenText |-> trim(SubSeq(text, 1, open - 1)), codes |-> <<rest>>]
        ELSE parseLoop(text, matchAll(text), 1, text, <<>>)

parseAgentResponse(text) == parseLoop(text, matchAll(text), 1, text, <<>>)

-----------------------------------------------------------------------------
(* Inbound texts and RTM events *)

\* the texts the agent's transcription messages carry in the model
AgentTexts ==
    { <<W>>,                               \* plain narration
      <<LB, HTML>>,                        \* an open marker, not yet closed
      <<LB, HTML, RB>>,                    \* one complete html payload
      <<LB, DOCTYPE, RB>>,                 \* one complete payload, other html
      <<LB, HTML, RB, LB>>,                \* a complete payload, then an open marker
      <<LB, HTML, RB, LB, DOCTYPE, RB>> }  \* two complete payloads

\* the texts the user's transcription messages carry in the model
UserTexts == { <<W>>, <<LB, HTML>>, <<LB, HTML, RB>> }

Texts == AgentTexts \cup UserTexts

AgentTag == "assistant.transcription"
UserTag == "user.transcription"
OwnChannel == "own"
ForeignChannel == "foreign"

\* an optional field of a parsed message, or an optional value: present or not
Some(v) == <<v>>
None == <<>>

NoData ==
    [object |-> None, text |-> None, words |-> None, transcription |-> None,
     turn_status |-> None, final |-> None]

\* the parsed data of the well-formed transcription messages of the agent service
TranscriptionData ==
    { [NoData EXCEPT !.object = Some(AgentTag), !.text = Some(t),
                     !.turn_status = Some(st)] : t \in AgentTexts, st \in {0, 1} }
    \cup
    { [NoData EXCEPT !.object = Some(UserTag), !.text = Some(t),
                     !.turn_status = Some(st)] : t \in UserTexts, st \in {0, 1} }

\* other shapes: no tag, no text, an alternative text field, the final flag
OtherData ==
    { NoData,
      [NoData EXCEPT !.object = Some(AgentTag), !.text = Some(<<>>),
                     !.turn_status = Some(1)],
      [NoData EXCEPT !.words = Some(<<W>>), !.final = Some(TRUE)],
      [NoData EXCEPT !.transcription = Some(<<W>>), !.turn_status = Some(1)],
      [NoData EXCEPT !.object = Some(AgentTag), !.transcription = Some(<<LB, HTML>>),
                     !.turn_status = Some(0)],
      [NoData EXCEPT !.object = Some(AgentTag), !.text = Some(<<LB, HTML, RB>>),
                     !.turn_status = Some(0), !.final = Some(TRUE)] }

\* an RTM "message" event: its channel tag, and its payload, parsed or unparseable
Events ==
    [channelName : {Some(OwnChannel)}, parses : {TRUE}, data : TranscriptionData]
    \cup [channelName : {Some(OwnChannel), None}, parses : {TRUE}, data : OtherData]
    \cup [channelName : {Some(ForeignChannel)}, parses : {TRUE},
          data : {d \in TranscriptionData : d.text = Some(<<LB, HTML, RB>>)}]
    \cup [channelName : {Some(OwnChannel)}, parses : {FALSE}, data : {NoData}]

\* JavaScript truthiness of an optional string field
Truthy(f) == f # None /\ f[1] # <<>>

\* a || b on optional string fields
OrElse(a, b) == IF Truthy(a) THEN a ELSE b

\* a listener that hands a payload it cannot parse to the callback as text
listenerMessage_RawOnParseError(event, callbackSet) ==
    IF event.channelName # None /\ event.channelName # Some(OwnChannel) THEN None
    ELSE IF ~event.parses
    THEN Some([type |-> "user", text |-> <<W>>, isFinal |-> TRUE])
    ELSE LET data == event.data
         IN  IF ~(data.object = Some(AgentTag) \/ data.object = Some(UserTag)
                  \/ Truthy(data.words) \/ Truthy(data.text))
             THEN None
             ELSE LET isAgent == data.object = Some(AgentTag)
                      text == OrElse(data.text,
                                  OrElse(data.words,
                                      OrElse(data.transcription, Some(<<>>))))
                      isFinal == data.turn_status = Some(1) \/ data.final = Some(TRUE)
                  IN  IF Truthy(text) /\ callbackSet
                      THEN Some([type |-> IF isAgent THEN "agent" ELSE "user",
                                 text |-> text[1], isFinal |-> isFinal])
                      ELSE None

\* a listener without the channelName test
listenerMessage_AnyChannel(event, callbackSet) ==
    IF ~event.parses THEN None
    ELSE LET data == event.data
         IN  IF ~(data.object = Some(AgentTag) \/ data.object = Some(UserTag)
                  \/ Truthy(data.words) \/ Truthy(data.text))
             THEN None
             ELSE LET isAgent == data.object = Some(AgentTag)
                      text == OrElse(data.text,
                                  OrElse(data.words,
                                      OrElse(data.transcription, Some(<<>>))))
                      isFinal == data.turn_status = Some(1) \/ data.final = Some(TRUE)
                  IN  IF Truthy(text) /\ callbackSet
                      THEN Some([type |-> IF isAgent THEN "agent" ELSE "user",
                                 text |-> text[1], isFinal |-> isFinal])
                      ELSE None

\* a listener without the transcription guard and the test of the text
listenerMessage_PassesAnything(event, callbackSet) ==
    IF event.channelName # None /\ event.channelName # Some(OwnChannel) THEN None
    ELSE IF ~event.parses THEN None
    ELSE LET data == event.data
             isAgent == data.object = Some(AgentTag)
             text == OrElse(data.text,
                         OrElse(data.words,
                             OrElse(data.transcription, Some(<<>>))))
             isFinal == data.turn_status = Some(1) \/ data.final = Some(TRUE)
         IN  IF callbackSet
             THEN Some([type |-> IF isAgent THEN "agent" ELSE "user",
                        text |-> text[1], isFinal |-> isFinal])
             ELSE None

\* a listener for which a message is final only if both signals say so
listenerMessage_BothSignals(event, callbackSet) ==
    IF event.channelName # None /\ event.channelName # Some(OwnChannel) THEN None
    ELSE IF ~event.parses THEN None
    ELSE LET data == event.data
         IN  IF ~(data.object = Some(AgentTag) \/ data.object = Some(UserTag)
                  \/ Truthy(data.words) \/ Truthy(data.text))
             THEN None
             ELSE LET isAgent == data.object = Some(AgentTag)
                      text == OrElse(data.text,
                                  OrElse(data.words,
                                      OrElse(data.transcription, Some(<<>>))))
                      isFinal == data.turn_status = Some(1) /\ data.final = Some(TRUE)
                  IN  IF Truthy(text) /\ callbackSet
                      THEN Some([type |-> IF isAgent THEN "agent" ELSE "user",
                                 text |-> text[1], isFinal |-> isFinal])
                      ELSE None

\* The "message" listener up to the callback: the TranscriptionMessage it passes
\* to onTranscription, or None when it returns or throws before the call.
listenerMessage(event, callbackSet) ==
    IF event.channelName # None /\ event.channelName # Some(OwnChannel) THEN None
    ELSE IF ~event.parses THEN None
    ELSE LET data == event.data
         IN  IF ~(data.object = Some(AgentTag) \/ data.object = Some(UserTag)
                  \/ Truthy(data.words) \/ Truthy(data.text))
             THEN None
             ELSE LET isAgent == data.object = Some(AgentTag)
                      text == OrElse(data.text,
                                  OrElse(data.words,
                                      OrElse(data.transcription, Some(<<>>))))
                      isFinal == data.turn_status = Some(1) \/ data.final = Some(TRUE)
                  IN  IF Truthy(text) /\ callbackSet
                      THEN Some([type |-> IF isAgent THEN "agent" ELSE "user",
                                 text |-> text[1], isFinal |-> isFinal])
                      ELSE None

-----------------------------------------------------------------------------
(* The transcription callback of the page *)

\* a commit that puts each new block in front of the list
RECURSIVE commitCodes_Prepends(_, _, _)
commitCodes_Prepends(blocks, current, codes) ==
    IF codes = <<>> THEN [codeBlocks |-> blocks, currentCode |-> current]
    ELSE commitCodes_Prepends(<<Head(codes)>> \o blocks, Head(codes), Tail(codes))

\* codes.forEach: each code appended to codeBlocks and made the current code
RECURSIVE commitCodes(_, _, _)
commitCodes(blocks, current, codes) ==
    IF codes = <<>> THEN [codeBlocks |-> blocks, currentCode |-> current]
    ELSE commitCodes(Append(blocks, Head(codes)), Head(codes), Tail(codes))

\* a callback that drops the isFinal test of the transcript entry
transcriptionCallback_TranscribesInterim(page, message) ==
    LET parsed == parseAgentResponse(message.text)
        committed ==
            IF Len(parsed.codes) > 0 /\ message.isFinal
            THEN commitCodes(page.codeBlocks, page.currentCode, parsed.codes)
            ELSE [codeBlocks |-> page.codeBlocks, currentCode |-> page.currentCode]
    IN  [transcript |->
             IF parsed.spokenText # <<>>
             THEN Append(page.transcript,
                         [type |-> message.type, text |-> parsed.spokenText])
             ELSE page.transcript,
         codeBlocks |-> committed.codeBlocks,
         currentCode |-> committed.currentCode,
         isGeneratingCode |->
             IF message.type = "agent" /\ includes(message.text, LB)
             THEN ~message.isFinal
             ELSE page.isGeneratingCode]

\* a callback that sets the spinner whoever the speaker is
transcriptionCallback_AnySpeaker(page, message) ==
    LET parsed == parseAgentResponse(message.text)
        committed ==
            IF Len(parsed.codes) > 0 /\ message.isFinal
            THEN commitCodes(page.codeBlocks, page.currentCode, parsed.codes)
            ELSE [codeBlocks |-> page.codeBlocks, currentCode |-> page.currentCode]
    IN  [transcript |->
             IF parsed.spokenText # <<>> /\ message.isFinal
             THEN Append(page.transcript,
                         [type |-> message.type, text |-> parsed.spokenText])
             ELSE page.transcript,
         codeBlocks |-> committed.codeBlocks,
         currentCode |-> committed.currentCode,
         isGeneratingCode |->
             IF includes(message.text, LB)
             THEN ~message.isFinal
             ELSE page.isGeneratingCode]

\* a callback that flips the spinner on each interim agent fragment with a bracket
transcriptionCallback_TogglesSpinner(page, message) ==
    LET parsed == parseAgentResponse(message.text)
        committed ==
            IF Len(parsed.codes) > 0 /\ message.isFinal
            THEN commitCodes(page.codeBlocks, page.currentCode, parsed.codes)
            ELSE [codeBlocks |-> page.codeBlocks, currentCode |-> page.currentCode]
    IN  [transcript |->
             IF parsed.spokenText # <<>> /\ message.isFinal
             THEN Append(page.transcript,
                         [type |-> message.type, text |-> parsed.spokenText])
             ELSE page.transcript,
         codeBlocks |-> committed.codeBlocks,
         currentCode |-> committed.currentCode,
         isGeneratingCode |->
             IF message.type = "agent" /\ includes(message.text, LB)
             THEN (IF message.isFinal THEN FALSE ELSE ~page.isGeneratingCode)
             ELSE page.isGeneratingCode]

\* a callback that drops the isFinal test of the code commit
transcriptionCallback_CommitsInterim(page, message) ==
    LET parsed == parseAgentResponse(message.text)
        committed == commitCodes(page.codeBlocks, page.currentCode, parsed.codes)
    IN  [transcript |->
             IF parsed.spokenText # <<>> /\ message.isFinal
             THEN Append(page.transcript,
                         [type |-> message.type, text |-> parsed.spokenText])
             ELSE page.transcript,
         codeBlocks |-> committed.codeBlocks,
         currentCode |-> committed.currentCode,
         isGeneratingCode |->
             IF message.type = "agent" /\ includes(message.text, LB)
             THEN ~message.isFinal
             ELSE page.isGeneratingCode]

\* the page state after the callback has handled message
transcriptionCallback(page, message) ==
    LET parsed == parseAgentResponse(message.text)
        hasLenticularOpenBracket == includes(message.text, LB)
        generating ==
            IF message.type = "agent" /\ hasLenticularOpenBracket
            THEN ~message.isFinal
            ELSE page.isGeneratingCode
        entries ==
            IF parsed.spokenText # <<>> /\ message.isFinal
            THEN Append(page.transcript,
                        [type |-> message.type, text |-> parsed.spokenText])
            ELSE page.transcript
        committed ==
            IF Len(parsed.codes) > 0 /\ message.isFinal
            THEN commitCodes(page.codeBlocks, page.currentCode, parsed.codes)
            ELSE [codeBlocks |-> page.codeBlocks, currentCode |-> page.currentCode]
    IN  [transcript |-> entries, codeBlocks |-> committed.codeBlocks,
         currentCode |-> committed.currentCode, isGeneratingCode |-> generating]

Page ==
    [transcript |-> transcript, codeBlocks |-> codeBlocks,
     currentCode |-> currentCode, isGeneratingCode |-> isGeneratingCode]

\* the version the dropdown shows as selected:
\* codeBlocks.findIndex((b) => b.html === currentCode), 0-based, -1 if none
findIndex(blocks, html) ==
    IF \E i \in 1..Len(blocks) : blocks[i] = html
    THEN (CHOOSE i \in 1..Len(blocks) :
              blocks[i] = html /\ \A j \in 1..(i - 1) : blocks[j] # html) - 1
    ELSE -1

-----------------------------------------------------------------------------
(* History of the agent fragments delivered to the callback, as a lane:      *)
(* Idle, Open with the interim text last delivered, or Sealed with the text *)
(* of the final fragment that sealed the turn.                              *)

IdleLane == [status |-> "Idle", text |-> <<>>]

laneAfter(message) ==
    [status |-> IF message.isFinal THEN "Sealed" ELSE "Open", text |-> message.text]

\* text has an open marker with no close marker after it
hasUnterminatedOpen(text) ==
    \E i \in 1..Len(text) :
        text[i] = LB /\ \A j \in (i + 1)..Len(text) : text[j] # RB

-----------------------------------------------------------------------------
(* Initial state: the page is loaded, no client has been constructed *)

NoProbe == [input |-> None, output |-> None]

Init ==
    /\ transcript = <<>>
    /\ codeBlocks = <<>>
    /\ currentCode = <<>>
    /\ isGeneratingCode = FALSE
    /\ isConnected = FALSE
    /\ isMicActive = FALSE
    /\ agoraClientRef = FALSE
    /\ client = FALSE
    /\ rtcJoined = FALSE
    /\ rtmClient = FALSE
    /\ rtmLoggedIn = FALSE
    /\ rtmSubscribed = FALSE
    /\ rtmListener = FALSE
    /\ localAudioTrack = FALSE
    /\ trackEnabled = FALSE
    /\ onTranscription = FALSE
    /\ pc = "init"
    /\ agentLane = IdleLane
    /\ cleared = FALSE
    /\ lateCallback = FALSE
    /\ probe = NoProbe
    /\ openTracks = 0
    /\ trackPublished = FALSE

history == <<agentLane, cleared, lateCallback>>

-----------------------------------------------------------------------------
(* handleConnect: construct the client, set the callback, initialize()      *)

\* new AgoraConversationalClient, setTranscriptionCallback, initialize() up to
\* the await of client.join
HandleConnect ==
    /\ pc = "init"
    /\ agoraClientRef' = TRUE
    /\ onTranscription' = TRUE
    /\ client' = TRUE
    /\ pc' = "join"
    /\ UNCHANGED <<pageVars, isConnected, isMicActive, rtcJoined, rtmClient,
                   rtmLoggedIn, rtmSubscribed, rtmListener, localAudioTrack,
                   trackEnabled, history, probe,
                   micVars>>

\* join resolves; initializeRTM creates the RTM client and awaits login
JoinOk ==
    /\ pc = "join"
    /\ rtcJoined' = TRUE
    /\ rtmClient' = TRUE
    /\ pc' = "login"
    /\ UNCHANGED <<pageVars, isConnected, isMicActive, agoraClientRef, client,
                   rtmLoggedIn, rtmSubscribed, rtmListener, localAudioTrack,
                   trackEnabled, onTranscription, history, probe,
                   micVars>>

\* join rejects: initialize() throws, this.client stays set
JoinFail ==
    /\ pc = "join"
    /\ pc' = "connectFailed"
    /\ UNCHANGED <<pageVars, isConnected, isMicActive, agoraClientRef,
                   clientVars, history, probe,
                   micVars>>

\* login resolves; subscribe is awaited
LoginOk ==
    /\ pc = "login"
    /\ rtmLoggedIn' = TRUE
    /\ pc' = "subscribe"
    /\ UNCHANGED <<pageVars, isConnected, isMicActive, agoraClientRef, client,
                   rtcJoined, rtmClient, rtmSubscribed, rtmListener,
                   localAudioTrack, trackEnabled, onTranscription, history,
                   probe,
                   micVars>>

\* login rejects: rethrown, caught by the outer catch of initializeRTM, which
\* returns normally, and so does initialize()
LoginFail ==
    /\ pc = "login"
    /\ pc' = "connected"
    /\ UNCHANGED <<pageVars, isConnected, isMicActive, agoraClientRef,
                   clientVars, history, probe,
                   micVars>>

\* subscribe resolves; the "message" listener is registered
SubscribeOk ==
    /\ pc = "subscribe"
    /\ rtmSubscribed' = TRUE
    /\ rtmListener' = TRUE
    /\ pc' = "connected"
    /\ UNCHANGED <<pageVars, isConnected, isMicActive, agoraClientRef, client,
                   rtcJoined, rtmClient, rtmLoggedIn, localAudioTrack,
                   trackEnabled, onTranscription, history, probe,
                   micVars>>

\* subscribe rejects: caught as a failed login is, no listener is registered
SubscribeFail ==
    /\ pc = "subscribe"
    /\ pc' = "connected"
    /\ UNCHANGED <<pageVars, isConnected, isMicActive, agoraClientRef,
                   clientVars, history, probe,
                   micVars>>

\* startMicrophone(), called by the host once initialize() has returned: the
\* track is created, stored and published
StartMicrophone ==
    /\ pc = "connected"
    /\ localAudioTrack' = TRUE
    /\ trackEnabled' = TRUE
    /\ UNCHANGED <<pageVars, isConnected, isMicActive, agoraClientRef, client,
                   rtcJoined, rtmClient, rtmLoggedIn, rtmSubscribed,
                   rtmListener, onTranscription, pc, history, probe>>

\* stopMicrophone(), called by the host: an existing track is stopped and
\* closed, localAudioTrack = null
StopMicrophone ==
    /\ pc = "connected"
    /\ localAudioTrack' = FALSE
    /\ trackEnabled' = FALSE
    /\ UNCHANGED <<pageVars, isConnected, isMicActive, agoraClientRef, client,
                   rtcJoined, rtmClient, rtmLoggedIn, rtmSubscribed,
                   rtmListener, onTranscription, pc, history, probe>>

\* isConnected() of the client: this.client !== null
clientIsConnected == client

\* isMicActive() of the client: this.localAudioTrack !== null
clientIsMicActive == localAudioTrack

\* isMuted(): true without a track, else !localAudioTrack.enabled
isMuted(track, enabled) == IF ~track THEN TRUE ELSE ~enabled

\* a setMuted that closes the track to mute it
setMuted_ClosesTrack(track, enabled, muted) ==
    IF track
    THEN [localAudioTrack |-> ~muted, trackEnabled |-> ~muted]
    ELSE [localAudioTrack |-> track, trackEnabled |-> enabled]

\* setMuted(muted): if (this.localAudioTrack) setEnabled(!muted); the track
\* reference and the enabled flag afterwards
setMuted(track, enabled, muted) ==
    IF track
    THEN [localAudioTrack |-> track, trackEnabled |-> ~muted]
    ELSE [localAudioTrack |-> track, trackEnabled |-> enabled]

\* setMuted(muted), called by the host and awaited
SetMuted(muted) ==
    /\ pc = "connected"
    /\ LET after == setMuted(localAudioTrack, trackEnabled, muted)
       IN  /\ localAudioTrack' = after.localAudioTrack
           /\ trackEnabled' = after.trackEnabled
    /\ UNCHANGED <<pageVars, isConnected, isMicActive, agoraClientRef, client,
                   rtcJoined, rtmClient, rtmLoggedIn, rtmSubscribed,
                   rtmListener, onTranscription, pc, history, probe,
                   micVars>>

-----------------------------------------------------------------------------
(* The RTM SDK delivers a channel message to the registered listener *)

\* a listener that invokes the callback twice for one message
Deliver_CallsTwice(event) ==
    /\ rtmListener /\ rtmLoggedIn /\ rtmSubscribed
    /\ LET m == listenerMessage(event, onTranscription)
       IN  IF m = None
           THEN UNCHANGED <<pageVars, history>>
           ELSE LET page == transcriptionCallback(
                                transcriptionCallback(Page, m[1]), m[1])
                IN  /\ Len(page.transcript) <= MaxTranscript + 1
                    /\ Len(page.codeBlocks) <= MaxVersions
                    /\ transcript' = page.transcript
                    /\ codeBlocks' = page.codeBlocks
                    /\ currentCode' = page.currentCode
                    /\ isGeneratingCode' = page.isGeneratingCode
                    /\ agentLane' = IF m[1].type = "agent" THEN laneAfter(m[1])
                                     ELSE agentLane
                    /\ lateCallback' = (lateCallback \/ cleared)
                    /\ UNCHANGED cleared
    /\ UNCHANGED <<isConnected, isMicActive, agoraClientRef, clientVars, pc,
                   micVars>>

Deliver(event) ==
    /\ rtmListener /\ rtmLoggedIn /\ rtmSubscribed
    /\ LET m == listenerMessage(event, onTranscription)
       IN  IF m = None
           THEN UNCHANGED <<pageVars, history>>
           ELSE LET page == transcriptionCallback(Page, m[1])
                IN  /\ Len(page.transcript) <= MaxTranscript
                    /\ Len(page.codeBlocks) <= MaxVersions
                    /\ transcript' = page.transcript
                    /\ codeBlocks' = page.codeBlocks
                    /\ currentCode' = page.currentCode
                    /\ isGeneratingCode' = page.isGeneratingCode
                    /\ agentLane' = IF m[1].type = "agent" THEN laneAfter(m[1])
                                     ELSE agentLane
                    /\ lateCallback' = (lateCallback \/ cleared)
                    /\ UNCHANGED cleared
    /\ UNCHANGED <<isConnected, isMicActive, agoraClientRef, clientVars, pc,
                   micVars>>

-----------------------------------------------------------------------------
(* The version dropdown of the page *)

\* onChange with the option of value idx: setCurrentCode(codeBlocks[idx].html)
selectVersion(page, idx) == [page EXCEPT !.currentCode = page.codeBlocks[idx + 1]]

\* the user picks the option idx of the dropdown, which is rendered when
\* codeBlocks.length > 1 and has one option per block
SelectVersion(idx) ==
    /\ Len(codeBlocks) > 1
    /\ idx \in 0..(Len(codeBlocks) - 1)
    /\ currentCode' = selectVersion(Page, idx).currentCode
    /\ UNCHANGED <<transcript, codeBlocks, isGeneratingCode, isConnected,
                   isMicActive, agoraClientRef, clientVars, pc, history, probe,
                   micVars>>

-----------------------------------------------------------------------------
(* handleDisconnect and AgoraConversationalClient.disconnect *)

\* handleDisconnect is called; the leave-agent request is awaited
HandleDisconnect ==
    /\ pc = "connected"
    /\ pc' = "leaveAgent"
    /\ UNCHANGED <<pageVars, isConnected, isMicActive, agoraClientRef,
                   clientVars, history, probe,
                   micVars>>

\* the request has returned; disconnect() is called: stopMicrophone() runs,
\* then if (this.rtmClient) unsubscribe is called and awaited
DisconnectStopMicrophone ==
    /\ pc = "leaveAgent"
    /\ localAudioTrack' = FALSE
    /\ trackEnabled' = FALSE
    /\ pc' = IF rtmClient THEN "unsubscribe" ELSE "leave"
    /\ UNCHANGED <<pageVars, isConnected, isMicActive, agoraClientRef, client,
                   rtcJoined, rtmClient, rtmLoggedIn, rtmSubscribed,
                   rtmListener, onTranscription, history, probe>>

\* unsubscribe resolves; logout is called and awaited
UnsubscribeOk ==
    /\ pc = "unsubscribe"
    /\ rtmSubscribed' = FALSE
    /\ pc' = "logout"
    /\ UNCHANGED <<pageVars, isConnected, isMicActive, agoraClientRef, client,
                   rtcJoined, rtmClient, rtmLoggedIn, rtmListener,
                   localAudioTrack, trackEnabled, onTranscription, history,
                   probe,
                   micVars>>

\* unsubscribe rejects: the catch logs it, logout is skipped, rtmClient = null,
\* client.leave() is called and awaited.  The failed request may or may not
\* have ended the subscription; the session stays logged in.
UnsubscribeFail ==
    /\ pc = "unsubscribe"
    /\ rtmClient' = FALSE
    /\ rtmSubscribed' \in {rtmSubscribed, FALSE}
    /\ pc' = "leave"
    /\ UNCHANGED <<pageVars, isConnected, isMicActive, agoraClientRef, client,
                   rtcJoined, rtmLoggedIn, rtmListener, localAudioTrack,
                   trackEnabled, onTranscription, history, probe,
                   micVars>>

\* logout resolves; rtmClient = null, client.leave() is called and awaited
LogoutOk ==
    /\ pc = "logout"
    /\ rtmLoggedIn' = FALSE
    /\ rtmClient' = FALSE
    /\ pc' = "leave"
    /\ UNCHANGED <<pageVars, isConnected, isMicActive, agoraClientRef, client,
                   rtcJoined, rtmSubscribed, rtmListener, localAudioTrack,
                   trackEnabled, onTranscription, history, probe,
                   micVars>>

\* logout rejects: the catch logs it; rtmClient = null, client.leave() is
\* awaited.  The failed request may or may not have ended the login.
LogoutFail ==
    /\ pc = "logout"
    /\ rtmClient' = FALSE
    /\ rtmLoggedIn' \in {rtmLoggedIn, FALSE}
    /\ pc' = "leave"
    /\ UNCHANGED <<pageVars, isConnected, isMicActive, agoraClientRef, client,
                   rtcJoined, rtmSubscribed, rtmListener, localAudioTrack,
                   trackEnabled, onTranscription, history, probe,
                   micVars>>

\* a reset that clears the code with the transcript
handleDisconnectReset_ClearsCode(page) ==
    [transcript |-> <<>>, codeBlocks |-> <<>>, currentCode |-> <<>>,
     isGeneratingCode |-> page.isGeneratingCode]

\* the rest of handleDisconnect once disconnect() has returned: the ref and
\* the connection state are reset, the transcript is cleared, the code is kept
handleDisconnectReset(page) ==
    [transcript |-> <<>>, codeBlocks |-> page.codeBlocks,
     currentCode |-> page.currentCode, isGeneratingCode |-> page.isGeneratingCode]

\* leave resolves; client = null; disconnect() returns and handleDisconnect
\* resets the page
LeaveOk ==
    /\ pc = "leave"
    /\ rtcJoined' = FALSE
    /\ client' = FALSE
    /\ agoraClientRef' = FALSE
    /\ isConnected' = FALSE
    /\ isMicActive' = FALSE
    /\ LET page == handleDisconnectReset(Page)
       IN  /\ transcript' = page.transcript
           /\ codeBlocks' = page.codeBlocks
           /\ currentCode' = page.currentCode
           /\ isGeneratingCode' = page.isGeneratingCode
    /\ agentLane' = IdleLane
    /\ cleared' = TRUE
    /\ pc' = "ended"
    /\ UNCHANGED <<rtmClient, rtmLoggedIn, rtmSubscribed, rtmListener,
                   localAudioTrack, trackEnabled, onTranscription, lateCallback,
                   probe,
                   micVars>>

\* leave rejects: disconnect() and handleDisconnect throw, nothing is reset
LeaveFail ==
    /\ pc = "leave"
    /\ pc' = "disconnectFailed"
    /\ UNCHANGED <<pageVars, isConnected, isMicActive, agoraClientRef,
                   clientVars, history, probe,
                   micVars>>

-----------------------------------------------------------------------------

Next ==
    \/ HandleConnect
    \/ JoinOk
    \/ JoinFail
    \/ LoginOk
    \/ LoginFail
    \/ SubscribeOk
    \/ SubscribeFail
    \/ StartMicrophone /\ UNCHANGED micVars
    \/ StopMicrophone /\ UNCHANGED micVars
    \/ \E muted \in BOOLEAN : SetMuted(muted)
    \/ \E event \in Events : Deliver(event) /\ UNCHANGED probe
    \/ \E idx \in 0..MaxVersions : SelectVersion(idx)
    \/ HandleDisconnect
    \/ DisconnectStopMicrophone /\ UNCHANGED micVars
    \/ UnsubscribeOk
    \/ UnsubscribeFail
    \/ LogoutOk
    \/ LogoutFail
    \/ LeaveOk
    \/ LeaveFail

Spec == Init /\ [][Next]_vars

-----------------------------------------------------------------------------
(* One fragment: a session that is receiving is delivered one event, which  *)
(* carries any text of up to MaxLen tokens or any shape of message data.    *)

Tokens == {LB, RB, HTML, DOCTYPE, doctype, FENCE, W, SP, NL}

\* one complete bracketed region each
RegionSamples ==
    { <<LB, HTML, RB>>, <<LB, DOCTYPE, RB>>, <<LB, doctype, RB>>,
      <<LB, W, RB>>, <<LB, LB, HTML, RB>> }

\* two regions in one text, with or without narration between them
TwoRegionTexts ==
    {a \o s \o b : a \in RegionSamples, b \in RegionSamples, s \in {<<>>, <<W>>}}

FragmentTexts == UNION {[1..n -> Tokens] : n \in 0..MaxLen} \cup TwoRegionTexts

\* agent transcription messages with those texts, interim and final
TextEvents ==
    [channelName : {Some(OwnChannel)}, parses : {TRUE},
     data : {[NoData EXCEPT !.object = Some(AgentTag), !.text = Some(t),
                            !.turn_status = Some(st)] :
                 t \in FragmentTexts, st \in {0, 1}}]

OtherTag == "message.info"

\* a string field of the data: missing, empty or holding t
FieldTexts(t) == {None, Some(<<>>), Some(t)}

\* every combination of the fields the listener reads
ShapeData ==
    [object : {None, Some(AgentTag), Some(UserTag), Some(OtherTag)},
     text : FieldTexts(<<W>>), words : FieldTexts(<<W, W>>),
     transcription : FieldTexts(<<W, W, W>>),
     turn_status : {None, Some(0), Some(1), Some(2)},
     final : {None, Some(TRUE), Some(FALSE)}]

ShapeEvents ==
    [channelName : {Some(OwnChannel), Some(ForeignChannel), None},
     parses : {TRUE}, data : ShapeData]
    \cup [channelName : {Some(OwnChannel), Some(ForeignChannel), None},
          parses : {FALSE}, data : {NoData}]

FragmentEvents == TextEvents \cup ShapeEvents

\* initialize() has returned with RTC joined and RTM logged in, subscribed and
\* listening; nothing has been delivered yet
FragmentInit ==
    /\ transcript = <<>>
    /\ codeBlocks = <<>>
    /\ currentCode = <<>>
    /\ isGeneratingCode = FALSE
    /\ isConnected = FALSE
    /\ isMicActive = FALSE
    /\ agoraClientRef = TRUE
    /\ client = TRUE
    /\ rtcJoined = TRUE
    /\ rtmClient = TRUE
    /\ rtmLoggedIn = TRUE
    /\ rtmSubscribed = TRUE
    /\ rtmListener = TRUE
    /\ localAudioTrack = FALSE
    /\ trackEnabled = FALSE
    /\ onTranscription = TRUE
    /\ pc = "connected"
    /\ agentLane = IdleLane
    /\ cleared = FALSE
    /\ lateCallback = FALSE
    /\ probe \in {[input |-> Some(e), output |-> None] : e \in FragmentEvents}
    /\ openTracks = 0
    /\ trackPublished = FALSE

\* the event is delivered to the listener; what the listener passes to the
\* callback (None when it passes nothing) is kept
DeliverProbe ==
    /\ probe.input # None
    /\ probe.output = None
    /\ Deliver(probe.input[1])
    /\ probe' = [probe EXCEPT
                    !.output = Some(listenerMessage(probe.input[1], onTranscription))]

FragmentNext == DeliverProbe

FragmentSpec == FragmentInit /\ [][FragmentNext]_vars

-----------------------------------------------------------------------------
(* The session with the microphone tracks of the SDK observed: MicSpec runs *)
(* the connection, the microphone operations and the teardown, and counts   *)
(* the tracks createMicrophoneAudioTrack has opened and close() has not     *)
(* closed.                                                                   *)

\* stop() and close() of the track in localAudioTrack, when there is one
closeHeldTrack ==
    /\ openTracks' = IF localAudioTrack THEN openTracks - 1 ELSE openTracks
    /\ trackPublished' = FALSE

\* startMicrophone(): createMicrophoneAudioTrack opens a new track, which is
\* assigned to localAudioTrack; then publish resolves or rejects
StartMicrophoneTracks(published) ==
    /\ openTracks < MaxTracks
    /\ StartMicrophone
    /\ openTracks' = openTracks + 1
    /\ trackPublished' = published

\* stopMicrophone(), called by the host
StopMicrophoneTracks == StopMicrophone /\ closeHeldTrack

\* stopMicrophone(), called by disconnect()
DisconnectStopMicrophoneTracks == DisconnectStopMicrophone /\ closeHeldTrack

MicNext ==
    \/ HandleConnect
    \/ JoinOk
    \/ JoinFail
    \/ LoginOk
    \/ LoginFail
    \/ SubscribeOk
    \/ SubscribeFail
    \/ \E published \in BOOLEAN : StartMicrophoneTracks(published)
    \/ StopMicrophoneTracks
    \/ \E muted \in BOOLEAN : SetMuted(muted)
    \/ HandleDisconnect
    \/ DisconnectStopMicrophoneTracks
    \/ UnsubscribeOk
    \/ UnsubscribeFail
    \/ LogoutOk
    \/ LogoutFail
    \/ LeaveOk
    \/ LeaveFail

MicSpec == Init /\ [][MicNext]_vars

-----------------------------------------------------------------------------
(* Claims *)

\* the listener is registered and the RTM session is receiving channel messages
Receiving == rtmListener /\ rtmLoggedIn /\ rtmSubscribed

\* the events the listener turns into a callback call, by finality
CallbackEvents == {e \in Events : listenerMessage(e, TRUE) # None}
InterimEvents == {e \in CallbackEvents : ~listenerMessage(e, TRUE)[1].isFinal}
FinalEvents == {e \in CallbackEvents : listenerMessage(e, TRUE)[1].isFinal}

IsPrefix(s, t) == Len(s) <= Len(t) /\ SubSeq(t, 1, Len(s)) = s

\* text has an open marker and no close marker after any open marker
noCompleteRegion(text) ==
    /\ includes(text, LB)
    /\ ~\E i \in 1..Len(text) : \E j \in (i + 1)..Len(text) :
           text[i] = LB /\ text[j] = RB

\* C1 Finality gating: processing a fragment with isFinal = false never adds
\* a code block, whatever its text contains.
C1_FinalityGating ==
    [][codeBlocks' # codeBlocks => ~\E e \in InterimEvents : Deliver(e)]_vars

\* C1 witness: an interim agent fragment holding a complete html payload has
\* been processed and there is no code block.
C1_Witness ==
    /\ agentLane = [status |-> "Open", text |-> <<LB, HTML, RB>>]
    /\ codeBlocks = <<>>

\* C2 Monotonic version ids: a version's id is its position in codeBlocks
\* (v{idx + 1}); every step keeps the blocks it finds at their positions and
\* adds new blocks after them, so ids are 1..n in commit order, never reused.
C2_MonotonicVersionIds == [][IsPrefix(codeBlocks, codeBlocks')]_vars

\* C2 witness: two versions from two sealed turns with the same html, at
\* the ids 1 and 2.
C2_Witness ==
    /\ codeBlocks = << <<HTML>>, <<HTML>> >>
    /\ transcript = <<>>
    /\ agentLane.status = "Sealed"

\* C3 GenerationState as a function of the agent lane: the spinner is on
\* exactly when the agent lane holds an interim fragment with an open marker
\* that no later close marker ends (as claimed; the code does not keep it).
C3_GenerationStateDerived ==
    isGeneratingCode <=>
        (agentLane.status = "Open" /\ hasUnterminatedOpen(agentLane.text))

\* the callback events whose text has an open marker and no complete region
NoRegionEvents ==
    {e \in CallbackEvents : noCompleteRegion(listenerMessage(e, TRUE)[1].text)}

\* the interim agent events whose text has an open marker no close marker ends
OpenInterimAgentEvents ==
    {e \in InterimEvents :
        /\ listenerMessage(e, TRUE)[1].type = "agent"
        /\ hasUnterminatedOpen(listenerMessage(e, TRUE)[1].text)}

\* C4 as claimed: a fragment with an open marker that has no close marker
\* after it never adds a code block.
C4_Original ==
    [][codeBlocks' # codeBlocks =>
         ~\E e \in CallbackEvents :
             /\ hasUnterminatedOpen(listenerMessage(e, TRUE)[1].text)
             /\ Deliver(e)]_vars

\* C4 Conservative fallback, amended: a fragment with an open marker and no
\* complete bracketed region never adds a code block; an interim agent
\* fragment with an open marker that no close marker ends turns the spinner
\* on and adds no transcript entry.
C4_ConservativeFallback ==
    [][/\ codeBlocks' # codeBlocks =>
            ~\E e \in NoRegionEvents : Deliver(e)
       /\ (~isGeneratingCode' \/ transcript' # transcript) =>
            ~\E e \in OpenInterimAgentEvents :
                /\ agentLane' = laneAfter(listenerMessage(e, TRUE)[1])
                /\ Deliver(e)]_vars

\* C4 witness: a final agent fragment with an unclosed open marker has been
\* processed: its text is in the transcript and there is no code block.
C4_Witness ==
    /\ transcript = << [type |-> "agent", text |-> <<LB, HTML>>] >>
    /\ codeBlocks = <<>>
    /\ agentLane.status = "Sealed"

\* C5 No duplicate commit: when the agent lane is sealed, the final fragment
\* that sealed it arriving once more changes neither the transcript nor the
\* code blocks.
C5_NoDuplicateCommit ==
    [][(agentLane.status = "Sealed"
        /\ (transcript' # transcript \/ codeBlocks' # codeBlocks)) =>
         ~\E e \in FinalEvents :
             /\ listenerMessage(e, TRUE)[1].type = "agent"
             /\ listenerMessage(e, TRUE)[1].text = agentLane.text
             /\ Deliver(e)]_vars

\* C6 Idempotence of interim replacement: in every state in which messages
\* are received, handling an interim fragment a second time returns the page
\* state the first handling returned.
C6_InterimIdempotent ==
    Receiving =>
        \A e \in InterimEvents :
            LET m == listenerMessage(e, TRUE)[1]
                once == transcriptionCallback(Page, m)
            IN  transcriptionCallback(once, m) = once

\* C6 witness: an interim agent fragment with an open marker has been
\* processed, and the same fragment can be delivered again.
C6_Witness ==
    /\ Receiving
    /\ agentLane = [status |-> "Open", text |-> <<LB, HTML>>]
    /\ isGeneratingCode

\* the steps of handleDisconnect and of the disconnect() it calls
TeardownStep ==
    /\ pc \in {"connected", "leaveAgent", "unsubscribe", "logout", "leave"}
    /\ pc' # pc

\* C7 Disconnection policy: no step of the teardown changes the code blocks
\* or the current code, and the step that ends it empties the transcript.
C7_DisconnectKeepsCode ==
    [][TeardownStep =>
         /\ codeBlocks' = codeBlocks
         /\ currentCode' = currentCode
         /\ (pc' = "ended" => transcript' = <<>>)]_vars

\* C7 witness: the session is torn down with two versions committed; the
\* transcript is empty, the versions and the current code are still there.
C7_Witness ==
    /\ pc = "ended"
    /\ transcript = <<>>
    /\ codeBlocks = << <<HTML>>, <<DOCTYPE>> >>
    /\ currentCode = <<DOCTYPE>>

\* C8 Cancellation ordering: once handleDisconnect has cleared the page
\* state, no fragment reaches the transcription callback.
C8_NoCallbackAfterClear == ~lateCallback

\* C9 Interim fragments never reach transcript history: no interim fragment
\* changes the transcript; the transcript changes only when a final fragment
\* is processed or the teardown empties it.
C9_InterimNeverTranscribed ==
    [][transcript' # transcript =>
         /\ ~\E e \in InterimEvents : Deliver(e)
         /\ (transcript' = <<>> \/ \E e \in FinalEvents : Deliver(e))]_vars

\* C9 witness: an interim agent fragment of plain narration has been
\* processed and the transcript is empty.
C9_Witness ==
    /\ agentLane = [status |-> "Open", text |-> <<W>>]
    /\ transcript = <<>>
    /\ ~cleared

\* C10 Commit advances current: right after a step that adds code blocks the
\* version the dropdown selects is the newest one.
C10_CommitAdvancesCurrent ==
    [][Len(codeBlocks') > Len(codeBlocks) =>
         findIndex(codeBlocks', currentCode') = Len(codeBlocks') - 1]_vars

\* C11 Version selection is read-only navigation: wherever the dropdown is
\* shown, picking any version k leaves the code blocks as they are, and the
\* version the dropdown then shows as current is k.
C11_SelectVersionReadOnly ==
    Len(codeBlocks) > 1 =>
        \A k \in 0..(Len(codeBlocks) - 1) :
            LET page == selectVersion(Page, k)
            IN  /\ page.codeBlocks = codeBlocks
                /\ page.transcript = transcript
                /\ findIndex(page.codeBlocks, page.currentCode) = k

\* the event of FragmentSpec has been delivered and its message handled
Handled == probe.output # None /\ probe.output[1] # None

\* the message the callback has handled
handled == probe.output[1][1]

\* C12 Round trip: the spans parseAgentResponse returns for a text are its
\* spokenText and its codes; the text can be rebuilt from them only if no
\* other text has the same spans.
C12_RoundTrip ==
    Handled =>
        \A t \in FragmentTexts :
            parseAgentResponse(t) = parseAgentResponse(handled.text) =>
                t = handled.text

\* the complete bracketed regions of text, as <<first, last>> index pairs: a
\* region starts at an open marker that no earlier region contains and
\* ends at the first close marker after it
Regions(text) ==
    {r \in (1..Len(text)) \X (1..Len(text)) :
        /\ r[1] < r[2]
        /\ text[r[1]] = LB
        /\ text[r[2]] = RB
        /\ \A k \in (r[1] + 1)..(r[2] - 1) : text[k] # RB
        /\ \A k \in 1..(r[1] - 1) :
               text[k] = LB => \E c \in (k + 1)..(r[1] - 1) : text[c] = RB}

regionText(text, r) == SubSeq(text, r[1], r[2])

\* the document-root check as the spec states it: the content, trimmed, starts
\* with a doctype declaration in any case or with an opening root-element tag
documentRoot(content) ==
    trim(content) # <<>> /\ Head(trim(content)) \in {DOCTYPE, doctype, HTML}

Contains(s, sub) ==
    \E i \in 1..(Len(s) - Len(sub) + 1) : SubSeq(s, i, i + Len(sub) - 1) = sub

Range(seq) == {seq[i] : i \in 1..Len(seq)}

\* C13 Ambiguous bracketed content is never dropped: once a final fragment is
\* handled, each complete region of its text whose cleaned content fails the
\* document-root check has no code block, and the transcript has one entry,
\* which holds the region with its delimiters.
C13_AmbiguousKeptAsSpeech ==
    (Handled /\ handled.isFinal) =>
        \A r \in Regions(handled.text) :
            ~documentRoot(cleanContent(regionText(handled.text, r))) =>
                /\ cleanContent(regionText(handled.text, r)) \notin Range(codeBlocks)
                /\ Len(transcript) = 1
                /\ Contains(transcript[1].text, regionText(handled.text, r))

\* text is speech, one complete region, speech: no marker outside the region
oneRegion(text, r) ==
    /\ Regions(text) = {r}
    /\ \A k \in 1..Len(text) :
           text[k] \in {LB, RB} => k \in {r[1], r[2]}

\* text without its region r
speechAround(text, r) ==
    SubSeq(text, 1, r[1] - 1) \o SubSeq(text, r[2] + 1, Len(text))

\* C14 Sealing a turn with code: once a final agent fragment of the form
\* speech, one region with renderable html, speech is handled, the
\* transcript has one entry, the text without the region, there is one code
\* block, the cleaned html, and the spinner is off.
C14_SealWithCode ==
    (Handled /\ handled.type = "agent" /\ handled.isFinal) =>
        \A r \in Regions(handled.text) :
            (/\ oneRegion(handled.text, r)
             /\ documentRoot(cleanContent(regionText(handled.text, r)))) =>
                /\ transcript = << [type |-> "agent",
                                    text |-> speechAround(handled.text, r)] >>
                /\ codeBlocks = << cleanContent(regionText(handled.text, r)) >>
                /\ ~isGeneratingCode

\* C15 disconnect() in the documented order: the microphone track is gone
\* before the RTM steps, the RTC channel is still joined during them, and
\* when disconnect() has returned the RTM session is neither subscribed nor
\* logged in and the RTC channel is left.
C15_DisconnectOrder ==
    /\ pc \in {"unsubscribe", "logout", "leave", "ended"} => ~localAudioTrack
    /\ pc \in {"unsubscribe", "logout"} => rtcJoined
    /\ pc = "ended" => ~rtmLoggedIn /\ ~rtmSubscribed /\ ~rtcJoined

\* C16 initialize() initializes both RTC and RTM: once initialize() has
\* returned without raising, the RTC channel is joined and the RTM session is
\* logged in and subscribed with the message listener registered.
C16_InitializeBoth ==
    pc = "connected" =>
        rtcJoined /\ rtmLoggedIn /\ rtmSubscribed /\ rtmListener

\* C17 Muting keeps the microphone track alive: a setMuted(m) step keeps the
\* track reference; without a track it changes nothing and isMuted() is true;
\* with a track, isMuted() is m afterwards; and the track reference becomes
\* null only in a stopMicrophone() step or in the one of disconnect().
C17_MutingKeepsTrack ==
    [][/\ \A m \in BOOLEAN :
            SetMuted(m) =>
                /\ localAudioTrack' = localAudioTrack
                /\ ~localAudioTrack =>
                       /\ UNCHANGED vars
                       /\ isMuted(localAudioTrack', trackEnabled')
                /\ localAudioTrack =>
                       isMuted(localAudioTrack', trackEnabled') = m
       /\ (localAudioTrack /\ ~localAudioTrack') =>
            (StopMicrophone \/ DisconnectStopMicrophone)]_vars

\* C17 witness: connected, with a track that setMuted(true) has disabled.
C17_Witness ==
    /\ pc = "connected"
    /\ localAudioTrack
    /\ ~trackEnabled
    /\ isMuted(localAudioTrack, trackEnabled)

\* C18 Document-root check: once a final fragment is handled, a complete
\* region of its text has a code block with its cleaned content if and only
\* if that content, trimmed, starts with a doctype declaration in any case
\* or with an opening root-element tag.
C18_DocumentRootCheck ==
    (Handled /\ handled.isFinal) =>
        \A r \in Regions(handled.text) :
            documentRoot(cleanContent(regionText(handled.text, r)))
                <=> cleanContent(regionText(handled.text, r)) \in Range(codeBlocks)

\* the complete regions of text in textual order
regionSeq(text) ==
    [i \in 1..Cardinality(Regions(text)) |->
        CHOOSE r \in Regions(text) :
            Cardinality({q \in Regions(text) : q[1] < r[1]}) = i - 1]

\* the cleaned contents of the regions that pass the document-root check, in
\* textual order
renderableContents(text) ==
    LET cleaned == [i \in 1..Len(regionSeq(text)) |->
                       cleanContent(regionText(text, regionSeq(text)[i]))]
    IN  SelectSeq(cleaned, documentRoot)

\* C19 Multiple payloads per turn: once a final fragment with several
\* renderable regions is handled, the code blocks are the cleaned contents
\* of these regions in textual order, at the ids 1, 2, ..., and the version
\* the dropdown shows as current is the last of them.
C19_OneVersionPerRegion ==
    (Handled /\ handled.isFinal /\ Len(renderableContents(handled.text)) > 1) =>
        /\ codeBlocks = renderableContents(handled.text)
        /\ findIndex(codeBlocks, currentCode) = Len(codeBlocks) - 1

\* C20 Finality of a normalized fragment: the message handed to the callback
\* is final when turn_status is 1, final when the final flag is true, and
\* interim when neither is the case.
C20_FinalityEitherSignal ==
    Handled =>
        LET data == probe.input[1].data
        IN  /\ data.turn_status = Some(1) => handled.isFinal
            /\ data.final = Some(TRUE) => handled.isFinal
            /\ (data.turn_status # Some(1) /\ data.final # Some(TRUE)) =>
                   ~handled.isFinal

\* C20 witness: a message whose signals disagree, turn_status 0 and the
\* final flag true, has been handled as final.
C20_Witness ==
    /\ Handled
    /\ probe.input[1].data.turn_status = Some(0)
    /\ probe.input[1].data.final = Some(TRUE)
    /\ handled.isFinal

\* the event of FragmentSpec has been delivered
Delivered == probe.output # None

\* the event was parsed and is not tagged with another channel
Accepted(event) ==
    event.parses /\ event.channelName \in {None, Some(OwnChannel)}

\* the first of text, words, transcription that is present and not empty
firstText(data) ==
    IF Truthy(data.text) THEN data.text[1]
    ELSE IF Truthy(data.words) THEN data.words[1]
    ELSE data.transcription[1]

\* C21 Tolerant text extraction: a parsed message with text, words or
\* transcription present and not empty produces a fragment, with or without
\* a speaker tag, and the fragment's text is the first of them.
C21_TolerantTextExtraction ==
    LET event == probe.input[1]
    IN  (/\ Delivered
         /\ Accepted(event)
         /\ (Truthy(event.data.text) \/ Truthy(event.data.words)
             \/ Truthy(event.data.transcription))) =>
            Handled /\ handled.text = firstText(event.data)

\* C22 Speaker classification: a fragment has the speaker agent exactly when
\* the message's object is the assistant tag, and the speaker user exactly
\* when it is the user tag.
C22_SpeakerClassification ==
    Handled =>
        /\ handled.type = "agent" <=> probe.input[1].data.object = Some(AgentTag)
        /\ handled.type = "user" <=> probe.input[1].data.object = Some(UserTag)

\* the page state and its history are as FragmentInit left them
PageUntouched ==
    /\ transcript = <<>>
    /\ codeBlocks = <<>>
    /\ currentCode = <<>>
    /\ ~isGeneratingCode
    /\ agentLane = IdleLane

\* data has no speaker tag and no text field that holds anything
nonTranscription(data) ==
    /\ data.object \notin {Some(AgentTag), Some(UserTag)}
    /\ ~Truthy(data.text)
    /\ ~Truthy(data.words)
    /\ ~Truthy(data.transcription)

\* C23 Non-transcription messages are ignored: once a parsed message with no
\* speaker tag and no text field is delivered, the listener has passed
\* nothing to the callback and the page state is as it was.
C23_NonTranscriptionIgnored ==
    (Delivered /\ probe.input[1].parses
     /\ nonTranscription(probe.input[1].data)) =>
        probe.output[1] = None /\ PageUntouched

\* C23 witness: a message of the session's channel with another object tag,
\* a final flag and no text field has been delivered and dropped.
C23_Witness ==
    /\ Delivered
    /\ probe.input[1].channelName = Some(OwnChannel)
    /\ probe.input[1].parses
    /\ probe.input[1].data =
           [NoData EXCEPT !.object = Some(OtherTag), !.final = Some(TRUE)]
    /\ probe.output[1] = None
    /\ PageUntouched

\* the event with the tag of the session's channel in place of its own
onOwnChannel(event) == [event EXCEPT !.channelName = Some(OwnChannel)]

\* C24 Foreign-channel messages are ignored: once a message tagged with
\* another channel is delivered, nothing has been passed to the callback and
\* the page state is as it was; a message without a channel tag is handled
\* as the same message tagged with the session's channel is.
C24_ForeignChannelIgnored ==
    Delivered =>
        /\ probe.input[1].channelName = Some(ForeignChannel) =>
               probe.output[1] = None /\ PageUntouched
        /\ probe.input[1].channelName = None =>
               probe.output[1] =
                   listenerMessage(onOwnChannel(probe.input[1]), onTranscription)

\* C24 witness: a final agent transcription tagged with another channel has
\* been delivered and dropped.
C24_Witness ==
    /\ Delivered
    /\ probe.input[1].channelName = Some(ForeignChannel)
    /\ probe.input[1].parses
    /\ probe.input[1].data =
           [NoData EXCEPT !.object = Some(AgentTag), !.text = Some(<<W>>),
                          !.turn_status = Some(1)]
    /\ probe.output[1] = None
    /\ transcript = <<>>

\* the page state of FragmentInit
EmptyPage ==
    [transcript |-> <<>>, codeBlocks |-> <<>>, currentCode |-> <<>>,
     isGeneratingCode |-> FALSE]

\* C25 Malformed messages are non-fatal: once a message whose payload cannot
\* be parsed is delivered, nothing has been passed to the callback, the page
\* state is as it was, the session is connected and receiving, and every
\* message delivered next is handled as it would have been without it.
C25_MalformedNonFatal ==
    (Delivered /\ ~probe.input[1].parses) =>
        /\ probe.output[1] = None
        /\ PageUntouched
        /\ pc = "connected"
        /\ Receiving
        /\ \A e \in Events :
               LET m == listenerMessage(e, onTranscription)
               IN  /\ m = listenerMessage(e, TRUE)
                   /\ m # None =>
                          transcriptionCallback(Page, m[1])
                              = transcriptionCallback(EmptyPage, m[1])

\* C25 witness: an unparseable message of the session's channel has been
\* delivered; the session is still receiving.
C25_Witness ==
    /\ Delivered
    /\ probe.input[1].channelName = Some(OwnChannel)
    /\ ~probe.input[1].parses
    /\ probe.output[1] = None
    /\ Receiving

\* the events the listener accepts that carry text: of the session's channel
\* or untagged, parsed, past the listener's guard, with a text that is not empty
AcceptedEvents ==
    {e \in Events :
        /\ Accepted(e)
        /\ \/ e.data.object \in {Some(AgentTag), Some(UserTag)}
           \/ Truthy(e.data.words)
           \/ Truthy(e.data.text)
        /\ \/ Truthy(e.data.text)
           \/ Truthy(e.data.words)
           \/ Truthy(e.data.transcription)}

\* the fragment an accepted event carries
fragmentOf(event) ==
    [type |-> IF event.data.object = Some(AgentTag) THEN "agent" ELSE "user",
     text |-> firstText(event.data),
     isFinal |-> event.data.turn_status = Some(1) \/ event.data.final = Some(TRUE)]

\* the step is one complete run of the callback on the fragment of event,
\* from the state the previous fragment left
processedOnce(event) ==
    LET page == transcriptionCallback(Page, fragmentOf(event))
    IN  /\ transcript' = page.transcript
        /\ codeBlocks' = page.codeBlocks
        /\ currentCode' = page.currentCode
        /\ isGeneratingCode' = page.isGeneratingCode
        /\ agentLane' = IF fragmentOf(event).type = "agent"
                         THEN laneAfter(fragmentOf(event)) ELSE agentLane

UserLaneEvents == {e \in AcceptedEvents : fragmentOf(e).type = "user"}
AgentLaneEvents == {e \in AcceptedEvents : fragmentOf(e).type = "agent"}

\* the entries of the transcript that the user lane has produced
userEntries(entries) == SelectSeq(entries, LAMBDA entry : entry.type = "user")

\* C27 Lane independence: a step that changes the spinner or the fragment the
\* agent lane holds is not the processing of a user fragment, and a step that
\* changes what the user lane has produced is not the processing of an agent
\* fragment.
C27_LaneIndependence ==
    [][/\ (isGeneratingCode' # isGeneratingCode \/ agentLane' # agentLane) =>
            ~\E e \in UserLaneEvents : Deliver(e)
       /\ userEntries(transcript') # userEntries(transcript) =>
            ~\E e \in AgentLaneEvents : Deliver(e)]_vars

\* C27 witness: while the agent lane holds an interim fragment and the
\* spinner is on, a final user fragment with an open marker has been
\* processed.
C27_Witness ==
    /\ isGeneratingCode
    /\ agentLane.status = "Open"
    /\ Len(transcript) = 1
    /\ transcript[1].type = "user"
    /\ includes(transcript[1].text, LB)

\* C28 isConnected() reflects the RTC session: isConnected() of the client is
\* true only if the join of initialize() has succeeded and disconnect() has
\* not completed since; it is false after a failed join and after disconnect().
C28_IsConnectedReflectsJoin == clientIsConnected => rtcJoined

\* C29 Microphone track ownership: at most one microphone track is open;
\* isMicActive() of the client is true only if the track it holds has been
\* published to a joined channel; when the client holds no track, as after
\* stopMicrophone(), every track it opened is closed.
C29_MicrophoneTrackOwnership ==
    /\ openTracks <= 1
    /\ clientIsMicActive => trackPublished /\ rtcJoined
    /\ ~localAudioTrack => openTracks = 0

====
